---- MODULE Spec2Model ----
(***************************************************************************)
(* env-crypto: the encryption engine (src/env-crypto.ts, carried in        *)
(* src/unnamed/part_000 lines 364-550) as a state machine over a small     *)
(* file system and the process environment, and its embedded key=value     *)
(* parser as an operator on texts; the loader (src/env-loader.ts, carried  *)
(* in src/unnamed/part_001) and the command line (src/cli/env-crypto.ts)   *)
(* as state machines over the same file system.                            *)
(*                                                                         *)
(* Texts are sequences of one-symbol strings.  Byte buffers are sequences  *)
(* of numbers 0..255.  scrypt, the AES-CTR keystream and the GCM tag are    *)
(* cryptographic functions that cannot be computed here: each is replaced  *)
(* by a fixed deterministic function of the same arguments (Scrypt,        *)
(* KeyStream, GcmTag); the XOR with the keystream, the hex encoding and     *)
(* decoding, and the comparison of the tag are modelled as the code and    *)
(* the library perform them.                                               *)
(***************************************************************************)
EXTENDS Integers, Sequences, FiniteSets, TLC

\* ------------------------------------------------------------- bounds
\* number of distinct outcomes of the two randomBytes(16) calls of one encryption
NumRandoms == 2
\* number of tampering steps a container may undergo
MaxTampers == 1
\* longest text the parser specification enumerates
MaxTextLen == 4
\* longest value of the one-line texts A=<value> the parser specification enumerates
MaxValueLen == 4

\* ------------------------------------------------------------- generic helpers
RECURSIVE SumSeq(_)
SumSeq(s) == IF s = <<>> THEN 0 ELSE Head(s) + SumSeq(Tail(s))

RECURSIVE WeightedSum(_, _)
WeightedSum(s, i) ==
    IF s = <<>> THEN 0 ELSE i * Head(s) + WeightedSum(Tail(s), i + 1)

RECURSIVE XorByte(_, _)
XorByte(a, b) ==
    IF a = 0 THEN b
    ELSE IF b = 0 THEN a
    ELSE (((a % 2) + (b % 2)) % 2) + 2 * XorByte(a \div 2, b \div 2)

SeqsUpTo(S, n) == UNION {[1..k -> S] : k \in 0..n}

\* ------------------------------------------------------------- text <-> bytes
\* the symbols the engine's plaintext files are written in, with their UTF-8 code
\* ("constructor" is that word, carried as one symbol under the code of its first letter)
EngineChars == {"A", "B", "=", "1", "\n", "#", " ", "{", "}", ",", "constructor"}

Code(c) ==
    CASE c = "A" -> 65
      [] c = "B" -> 66
      [] c = "=" -> 61
      [] c = "1" -> 49
      [] c = "\n" -> 10
      [] c = "#" -> 35
      [] c = " " -> 32
      [] c = "{" -> 123
      [] c = "}" -> 125
      [] c = "," -> 44
      [] c = "constructor" -> 99
      [] OTHER -> 63

\* a byte that is none of the symbols above decodes to "?", standing for any other character
Chr(b) == IF \E c \in EngineChars : Code(c) = b
          THEN CHOOSE c \in EngineChars : Code(c) = b
          ELSE "?"

Utf8Encode(text) == [i \in 1..Len(text) |-> Code(text[i])]
Utf8Decode(bytes) == [i \in 1..Len(bytes) |-> Chr(bytes[i])]

\* ------------------------------------------------------------- hex
HexDigits == <<"0", "1", "2", "3", "4", "5", "6", "7", "8", "9", "a", "b", "c", "d", "e", "f">>

IsHexDigit(c) == \E i \in 1..16 : HexDigits[i] = c
HexVal(c) == (CHOOSE i \in 1..16 : HexDigits[i] = c) - 1

\* Buffer.toString('hex') / cipher output encoding 'hex'
RECURSIVE ToHex(_)
ToHex(bytes) ==
    IF bytes = <<>> THEN <<>>
    ELSE <<HexDigits[(Head(bytes) \div 16) + 1], HexDigits[(Head(bytes) % 16) + 1]>>
         \o ToHex(Tail(bytes))

\* Buffer.from(str, 'hex'): decodes pairs of hex digits and stops at the first
\* pair that is not two hex digits (or at a trailing single digit)
RECURSIVE FromHex(_)
FromHex(s) ==
    IF Len(s) < 2 \/ ~IsHexDigit(s[1]) \/ ~IsHexDigit(s[2]) THEN <<>>
    ELSE <<16 * HexVal(s[1]) + HexVal(s[2])>> \o FromHex(Tail(Tail(s)))

\* ------------------------------------------------------------- cryptographic stand-ins
Undefined == "undefined"
Passphrases == {"k1", "k2"}
PassCode(k) == IF k = "k1" THEN 1 ELSE 2

\* scryptSync(key, salt, 32): a deterministic function of passphrase and salt, never all zero
Scrypt(key, salt) == <<1 + ((PassCode(key) * 16 + SumSeq(salt)) % 255)>>

\* the AES-CTR keystream byte at position i under (key, iv)
KeyStream(keyBuffer, iv, i) == (SumSeq(keyBuffer) * 7 + SumSeq(iv) * 13 + i * 29) % 256

\* cipher.update + cipher.final: XOR of the bytes with the keystream
Crypt(keyBuffer, iv, bytes) ==
    [i \in 1..Len(bytes) |-> XorByte(bytes[i], KeyStream(keyBuffer, iv, i))]

\* cipher.getAuthTag(): a deterministic function of key, iv and ciphertext
GcmTag(keyBuffer, iv, ct) ==
    <<(SumSeq(keyBuffer) + 3 * SumSeq(iv) + 5 * Len(ct) + WeightedSum(ct, 1)) % 256>>

\* randomBytes(16), for the salt and for the iv
RandomSalt(r) == <<16 * r + 1>>
RandomIV(r) == <<32 * r + 2>>

\* ------------------------------------------------------------- paths
\* A raw path is a sequence of tokens: separators "/" and "\\", the drive prefix
\* "C:", the names "." and "..", and file names.  A segment is the sequence of
\* tokens between two separators of the platform; a resolved path is the
\* sequence of its segments below the root (of drive C: on win32).
Platforms == {"posix", "win32"}
Seps(plat) == IF plat = "win32" THEN {"/", "\\"} ELSE {"/"}
Drive == "C:"

\* process.cwd()
Cwd == << <<"home">>, <<"app">> >>

StripDrive(plat, p) ==
    IF plat = "win32" /\ p # <<>> /\ Head(p) = Drive THEN Tail(p) ELSE p

\* path.isAbsolute
isAbsolute(plat, p) ==
    LET q == StripDrive(plat, p) IN q # <<>> /\ Head(q) \in Seps(plat)

RECURSIVE SplitPath(_, _, _)
SplitPath(plat, p, cur) ==
    LET done == IF cur = <<>> THEN <<>> ELSE <<cur>> IN
    IF p = <<>> THEN done
    ELSE IF Head(p) \in Seps(plat) THEN done \o SplitPath(plat, Tail(p), <<>>)
    ELSE SplitPath(plat, Tail(p), Append(cur, Head(p)))

RECURSIVE NormalizeSegs(_, _)
NormalizeSegs(segs, acc) ==
    IF segs = <<>> THEN acc
    ELSE IF Head(segs) = <<".">> THEN NormalizeSegs(Tail(segs), acc)
    ELSE IF Head(segs) = <<"..">>
         THEN NormalizeSegs(Tail(segs),
                            IF acc = <<>> THEN <<>> ELSE SubSeq(acc, 1, Len(acc) - 1))
    ELSE NormalizeSegs(Tail(segs), Append(acc, Head(segs)))

\* path.resolve(process.cwd(), filePath)
pathResolve(plat, p) ==
    NormalizeSegs(SplitPath(plat, StripDrive(plat, p), <<>>),
                  IF isAbsolute(plat, p) THEN <<>> ELSE Cwd)

RECURSIVE CommonLen(_, _)
CommonLen(a, b) ==
    IF a = <<>> \/ b = <<>> \/ Head(a) # Head(b) THEN 0
    ELSE 1 + CommonLen(Tail(a), Tail(b))

\* path.relative(from, to)
pathRelative(from, to) ==
    LET c == CommonLen(from, to) IN
    [i \in 1..(Len(from) - c) |-> <<"..">>] \o SubSeq(to, c + 1, Len(to))

\* the tokens whose text begins with two dots
DotDotTokens == {"..", "..env"}

\* relative.startsWith('..')
StartsWithDotDot(rel) == rel # <<>> /\ Head(Head(rel)) \in DotDotTokens

\* resolved.startsWith(cwd + path.sep)
StartsWithCwdSep(resolved) ==
    Len(resolved) > Len(Cwd) /\ SubSeq(resolved, 1, Len(Cwd)) = Cwd

\* the resolved path lies in the working directory tree
InsideCwd(resolved) ==
    Len(resolved) >= Len(Cwd) /\ SubSeq(resolved, 1, Len(Cwd)) = Cwd

\* validatePath: the verdict, and the resolved path it returns when it accepts
validatePath(plat, filePath) ==
    LET resolved == pathResolve(plat, filePath)
        relative == pathRelative(Cwd, resolved)
    IN [ok |-> ~(StartsWithDotDot(relative)
                 \/ (isAbsolute(plat, filePath) /\ ~StartsWithCwdSep(resolved))),
        resolved |-> resolved]

\* the raw paths the calls are made with
P_env == <<".env">>
P_enc == <<".env.encrypted">>
P_sub == <<".", "/", "subdir", "/", ".env">>
P_up == <<"..", "/", "..", "/", "..", "/", "etc", "/", "passwd">>
P_abs == <<"/", "etc", "/", "passwd">>
P_bs == <<"..", "\\", "..", "\\", "..", "\\", "etc", "\\", "passwd">>
P_drv == <<"C:", "\\", "etc", "\\", "passwd">>

\* the (sourcePath, outputPath) pairs encryptEnvFile is called with
EncCalls == {<<P_env, P_enc>>, <<P_sub, P_enc>>, <<P_up, P_enc>>, <<P_abs, P_enc>>,
             <<P_bs, P_enc>>, <<P_drv, P_enc>>, <<P_env, P_up>>, <<P_env, P_abs>>,
             <<P_env, P_bs>>, <<P_sub, P_up>>, <<P_up, P_up>>}
\* the sourcePath decryptEnvFile is called with
DecSrcPaths == {P_enc, P_env, P_sub, P_up, P_abs, P_bs, P_drv}
RawPaths == {P_env, P_enc, P_sub, P_up, P_abs, P_bs, P_drv}

F_env == Append(Cwd, <<".env">>)
F_enc == Append(Cwd, <<".env.encrypted">>)
F_passwd == << <<"etc">>, <<"passwd">> >>
Files == {pathResolve(pl, p) : pl \in Platforms, p \in RawPaths}

\* ------------------------------------------------------------- the key=value parser
IsSpace(c) == c \in {" ", "\t", "\r", "\n"}
IsLineTerminator(c) == c \in {"\r", "\n"}
IsKeyChar(c) == c \in {"A", "B", "1", "_", ".", "-", "__proto__", "constructor"}

RECURSIVE SplitLines(_, _)
SplitLines(txt, cur) ==
    IF txt = <<>> THEN <<cur>>
    ELSE IF Head(txt) = "\n" THEN <<cur>> \o SplitLines(Tail(txt), <<>>)
    ELSE SplitLines(Tail(txt), Append(cur, Head(txt)))

RECURSIVE DropSpaces(_)
DropSpaces(s) == IF s # <<>> /\ IsSpace(Head(s)) THEN DropSpaces(Tail(s)) ELSE s

RECURSIVE KeyLen(_)
KeyLen(s) == IF s # <<>> /\ IsKeyChar(Head(s)) THEN 1 + KeyLen(Tail(s)) ELSE 0

RECURSIVE DotLen(_)
DotLen(s) == IF s # <<>> /\ ~IsLineTerminator(Head(s)) THEN 1 + DotLen(Tail(s)) ELSE 0

NoMatch == [matched |-> FALSE, key |-> <<>>, value |-> <<>>]

\* line.match(/^\s*([\w.-]+)\s*=\s*(.*)?\s*$/), with match[2] || ''
MatchLine(line) ==
    LET s1 == DropSpaces(line)
        k == KeyLen(s1)
        s2 == DropSpaces(SubSeq(s1, k + 1, Len(s1)))
    IN IF k = 0 \/ s2 = <<>> \/ Head(s2) # "=" THEN NoMatch
       ELSE LET s3 == DropSpaces(Tail(s2))
                d == DotLen(s3)
            IN IF DropSpaces(SubSeq(s3, d + 1, Len(s3))) # <<>> THEN NoMatch
               ELSE [matched |-> TRUE, key |-> SubSeq(s1, 1, k), value |-> SubSeq(s3, 1, d)]

\* "Remove quotes if present"
StripQuotes(value) ==
    IF Len(value) > 1
       /\ \/ (value[1] = "\"" /\ value[Len(value)] = "\"")
          \/ (value[1] = "'" /\ value[Len(value)] = "'")
    THEN SubSeq(value, 2, Len(value) - 1)
    ELSE value

\* envVars[key] = value on an object literal: the key "__proto__" reaches the
\* inherited setter, which ignores a string, and creates no own property
ObjectSet(obj, key, value) ==
    IF key = <<"__proto__">> THEN obj
    ELSE [k \in (DOMAIN obj) \cup {key} |-> IF k = key THEN value ELSE obj[k]]

\* the callback of forEach, applied to one line
ParseLine(envVars, line) ==
    IF line = <<>> \/ Head(line) = "#" THEN envVars
    ELSE LET m == MatchLine(line) IN
         IF m.matched THEN ObjectSet(envVars, m.key, StripQuotes(m.value)) ELSE envVars

RECURSIVE ParseLines(_, _)
ParseLines(envVars, lines) ==
    IF lines = <<>> THEN envVars
    ELSE ParseLines(ParseLine(envVars, Head(lines)), Tail(lines))

EmptyObject == [k \in {} |-> <<>>]

\* "Parse the decrypted content as .env format"
ParseEnv(txt) == ParseLines(EmptyObject, SplitLines(txt, <<>>))

\* ------------------------------------------------------------- files and containers
NoFile == [kind |-> "none", text |-> <<>>, json |-> [j |-> "null"], mode |-> "none"]
TextFile(t, m) == [kind |-> "text", text |-> t, json |-> [j |-> "null"], mode |-> m]
JsonFile(v, m) == [kind |-> "json", text |-> <<>>, json |-> v, mode |-> m]

RequiredFields == {"salt", "iv", "content", "authTag"}

\* a parsed JSON object: `has` is the set of its properties
JsonObject(has, version, salt, iv, content, authTag) ==
    [j |-> "object", has |-> has, version |-> version, salt |-> salt, iv |-> iv,
     content |-> content, authTag |-> authTag]
JsonNull == [j |-> "null"]
\* a JSON number, string, boolean or array: reading a property of it gives undefined
JsonScalar == JsonObject({}, <<>>, <<>>, <<>>, <<>>, <<>>)

Version == <<"1", ".", "0", ".", "0">>

\* the text of a file as fs.readFileSync(path, 'utf8') returns it; the serialized
\* JSON of a container is carried as the two-symbol text "{}" (a single line
\* that opens with a brace)
ReadText(file) == IF file.kind = "text" THEN file.text ELSE <<"{", "}">>

\* !encryptedData.f : the property is absent or the empty string
Falsy(data, f) ==
    \/ f \notin data.has
    \/ (f = "salt" /\ data.salt = <<>>)
    \/ (f = "iv" /\ data.iv = <<>>)
    \/ (f = "content" /\ data.content = <<>>)
    \/ (f = "authTag" /\ data.authTag = <<>>)

\* fs.writeFileSync(path, data, { mode }): the mode is applied only when the
\* call creates the file; an existing file is truncated and keeps its mode
writeFileSync(fsx, path, data, mode) ==
    [fsx EXCEPT ![path] =
        JsonFile(data, IF fsx[path].kind = "none" THEN mode ELSE fsx[path].mode)]

\* ------------------------------------------------------------- the engine
\* clearBuffer: buffer.fill(0)
clearBuffer(buffer) == [i \in 1..Len(buffer) |-> 0]

Buf(name, bytes) == [name |-> name, bytes |-> bytes]

\* the outcome of a call: what it threw or returned, the buffers it created as
\* they are when it exits, the files it read and wrote, and the file system
Thrown(name, code, buffers, reads, fsx) ==
    [status |-> "error", errName |-> name, errCode |-> code, value |-> EmptyObject,
     buffers |-> buffers, reads |-> reads, writes |-> {}, fs |-> fsx]
Returned(value, buffers, reads, writes, fsx) ==
    [status |-> "ok", errName |-> "none", errCode |-> "none", value |-> value,
     buffers |-> buffers, reads |-> reads, writes |-> writes, fs |-> fsx]

Mode600 == "0600"

\* encryptEnvFile from "Validate and read the source file" on, with the mutant
\* that opens the output file before the source is read
encryptWithKey_WriteEarly(plat, key, fsx, sourcePath, outputPath, salt, iv) ==
    LET vs == validatePath(plat, sourcePath)
        vo == validatePath(plat, outputPath)
    IN IF ~vs.ok \/ ~vo.ok
       THEN Thrown("EnvCryptoError", "INVALID_PATH", {}, {}, fsx)
       ELSE LET opened == writeFileSync(fsx, vo.resolved, JsonScalar, Mode600) IN
            IF fsx[vs.resolved].kind = "none"
            THEN Thrown("Error", "ENOENT", {}, {vs.resolved}, opened)
            ELSE LET keyBuffer == Scrypt(key, salt)
                     encrypted == ToHex(Crypt(keyBuffer, iv,
                                              Utf8Encode(ReadText(fsx[vs.resolved]))))
                     authTag == GcmTag(keyBuffer, iv, FromHex(encrypted))
                     encryptedData == JsonObject(RequiredFields \cup {"version"}, Version,
                                                 ToHex(salt), ToHex(iv), encrypted,
                                                 ToHex(authTag))
                 IN Returned(EmptyObject,
                             {Buf("keyBuffer", clearBuffer(keyBuffer)),
                              Buf("salt", clearBuffer(salt))},
                             {vs.resolved}, {vo.resolved},
                             writeFileSync(opened, vo.resolved, encryptedData, Mode600))

encryptWithKey(plat, key, fsx, sourcePath, outputPath, salt, iv) ==
    LET vs == validatePath(plat, sourcePath) IN
    IF ~vs.ok
    THEN Thrown("EnvCryptoError", "INVALID_PATH", {}, {}, fsx)
    ELSE IF fsx[vs.resolved].kind = "none"
    THEN Thrown("Error", "ENOENT", {}, {vs.resolved}, fsx)
    ELSE LET plaintext == ReadText(fsx[vs.resolved])
             keyBuffer == Scrypt(key, salt)
             encrypted == ToHex(Crypt(keyBuffer, iv, Utf8Encode(plaintext)))
             authTag == GcmTag(keyBuffer, iv, FromHex(encrypted))
             encryptedData == JsonObject(RequiredFields \cup {"version"}, Version,
                                         ToHex(salt), ToHex(iv), encrypted,
                                         ToHex(authTag))
             vo == validatePath(plat, outputPath)
             \* finally: clearBuffer(keyBuffer), clearBuffer(salt)
             buffers == {Buf("keyBuffer", clearBuffer(keyBuffer)),
                         Buf("salt", clearBuffer(salt))}
         IN IF ~vo.ok
            THEN Thrown("EnvCryptoError", "INVALID_PATH", buffers, {vs.resolved}, fsx)
            ELSE Returned(EmptyObject, buffers, {vs.resolved}, {vo.resolved},
                          writeFileSync(fsx, vo.resolved, encryptedData, Mode600))

encryptEnvFile(plat, key, fsx, sourcePath, outputPath, salt, iv) ==
    IF key = Undefined \/ key = ""
    THEN Thrown("EnvCryptoError", "KEY_NOT_FOUND", {}, {}, fsx)
    ELSE encryptWithKey(plat, key, fsx, sourcePath, outputPath, salt, iv)

\* decryptEnvFile from "Validate and read encrypted file" on
decryptWithKey(plat, key, fsx, sourcePath) ==
    LET vs == validatePath(plat, sourcePath) IN
    IF ~vs.ok
    THEN Thrown("EnvCryptoError", "INVALID_PATH", {}, {}, fsx)
    ELSE IF fsx[vs.resolved].kind = "none"
    THEN Thrown("Error", "ENOENT", {}, {vs.resolved}, fsx)
    ELSE IF fsx[vs.resolved].kind = "text"
    \* JSON.parse of a text that is no JSON
    THEN Thrown("SyntaxError", "none", {}, {vs.resolved}, fsx)
    ELSE LET encryptedData == fsx[vs.resolved].json IN
         IF encryptedData.j = "null"
         \* reading a property of null
         THEN Thrown("TypeError", "none", {}, {vs.resolved}, fsx)
         ELSE IF \E f \in RequiredFields : Falsy(encryptedData, f)
         THEN Thrown("EnvCryptoError", "INVALID_FORMAT", {}, {vs.resolved}, fsx)
         ELSE LET salt == FromHex(encryptedData.salt)
                  keyBuffer == Scrypt(key, salt)
                  iv == FromHex(encryptedData.iv)
                  authTag == FromHex(encryptedData.authTag)
                  ct == FromHex(encryptedData.content)
                  \* finally: clearBuffer(keyBuffer); the salt buffer is left as it is
                  buffers == {Buf("keyBuffer", clearBuffer(keyBuffer)), Buf("salt", salt)}
              IN IF iv = <<>>
                 \* createDecipheriv rejects an empty iv
                 THEN Thrown("TypeError", "ERR_CRYPTO_INVALID_IV", buffers,
                             {vs.resolved}, fsx)
                 ELSE IF Len(authTag) # Len(GcmTag(keyBuffer, iv, ct))
                 \* setAuthTag rejects a tag of another length
                 THEN Thrown("TypeError", "ERR_CRYPTO_INVALID_AUTH_TAG", buffers,
                             {vs.resolved}, fsx)
                 ELSE IF authTag # GcmTag(keyBuffer, iv, ct)
                 \* decipher.final(): "unable to authenticate data"
                 THEN Thrown("Error", "none", buffers, {vs.resolved}, fsx)
                 ELSE Returned(ParseEnv(Utf8Decode(Crypt(keyBuffer, iv, ct))),
                               buffers, {vs.resolved}, {}, fsx)

\* the mutant that validates the path before it looks for the key
decryptEnvFile_KeyCheckedLate(plat, key, fsx, sourcePath) ==
    IF ~validatePath(plat, sourcePath).ok
    THEN Thrown("EnvCryptoError", "INVALID_PATH", {}, {}, fsx)
    ELSE IF key = Undefined \/ key = ""
    THEN Thrown("EnvCryptoError", "KEY_NOT_FOUND", {}, {}, fsx)
    ELSE decryptWithKey(plat, key, fsx, sourcePath)

decryptEnvFile(plat, key, fsx, sourcePath) ==
    IF key = Undefined \/ key = ""
    THEN Thrown("EnvCryptoError", "KEY_NOT_FOUND", {}, {}, fsx)
    ELSE decryptWithKey(plat, key, fsx, sourcePath)

\* ------------------------------------------------------------- the command line (cli/env-crypto.ts)
\* Object.entries(vars): the own keys of the mapping, each once, with their values
ObjectKeys(obj) ==
    CHOOSE sq \in [1..Cardinality(DOMAIN obj) -> DOMAIN obj] :
        \A i, j \in DOMAIN sq : sq[i] = sq[j] => i = j

\* /[\s,;]/.test(value)
NeedsQuotes(value) ==
    \E i \in 1..Len(value) : IsSpace(value[i]) \/ value[i] \in {",", ";"}

\* `${key}="${value}"` or `${key}=${value}`
EnvLine(key, value) ==
    IF NeedsQuotes(value) THEN key \o <<"=", "\"">> \o value \o <<"\"">>
    ELSE key \o <<"=">> \o value

\* lines.join('\n')
RECURSIVE JoinLines(_)
JoinLines(lines) ==
    IF lines = <<>> THEN <<>>
    ELSE Head(lines) \o (IF Len(lines) > 1 THEN <<"\n">> ELSE <<>>) \o JoinLines(Tail(lines))

\* envContent: the key=value text the decrypt subcommand writes
EnvContent(mapping) ==
    JoinLines([i \in 1..Cardinality(DOMAIN mapping) |->
                  EnvLine(ObjectKeys(mapping)[i], mapping[ObjectKeys(mapping)[i]])])
    \o <<"\n">>

\* fs.writeFileSync(path, text) without a mode: a new file gets the default
\* mode, an existing one keeps its mode
DefaultMode == "0644"
writeTextFileSync(fsx, path, text) ==
    [fsx EXCEPT ![path] =
        TextFile(text, IF fsx[path].kind = "none" THEN DefaultMode ELSE fsx[path].mode)]

\* args[n] || default
ArgOr(arg, default) == IF arg = <<>> THEN default ELSE arg

\* the decrypt subcommand: decryptEnvFile, then the mapping written as text to
\* path.resolve(process.cwd(), outputPath); an error ends the process with code 1
cliDecrypt(plat, key, fsx, arg1, arg2) ==
    LET r == decryptEnvFile(plat, key, fsx, ArgOr(arg1, P_enc))
        target == pathResolve(plat, ArgOr(arg2, P_env))
    IN IF r.status = "error" THEN r
       ELSE Returned(r.value, r.buffers, r.reads, {target},
                     writeTextFileSync(fsx, target, EnvContent(r.value)))

\* the encrypt subcommand
cliEncrypt(plat, key, fsx, arg1, arg2, salt, iv) ==
    encryptEnvFile(plat, key, fsx, ArgOr(arg1, P_env), ArgOr(arg2, P_enc), salt, iv)

\* any other command: the usage text is printed
cliUsage(fsx) == Returned(EmptyObject, {}, {}, {}, fsx)

\* ------------------------------------------------------------- the loader (env-loader.ts)
IsDigit(c) == c \in {"0", "1", "2", "3", "4", "5", "6", "7", "8", "9"}

RECURSIVE DigitsLen(_)
DigitsLen(s) == IF s # <<>> /\ IsDigit(Head(s)) THEN 1 + DigitsLen(Tail(s)) ELSE 0

\* /^-?\d+(\.\d+)?$/.test(value)
IsNumeric(value) ==
    LET s1 == IF value # <<>> /\ Head(value) = "-" THEN Tail(value) ELSE value
        d1 == DigitsLen(s1)
        s2 == SubSeq(s1, d1 + 1, Len(s1))
    IN /\ d1 > 0
       /\ \/ s2 = <<>>
          \/ (Head(s2) = "." /\ Len(s2) > 1 /\ DigitsLen(Tail(s2)) = Len(s2) - 1)

RECURSIVE DropLeadingZeros(_)
DropLeadingZeros(s) ==
    IF Len(s) > 1 /\ Head(s) = "0" THEN DropLeadingZeros(Tail(s)) ELSE s

RECURSIVE DropTrailingZeros(_)
DropTrailingZeros(s) ==
    IF s # <<>> /\ s[Len(s)] = "0" THEN DropTrailingZeros(SubSeq(s, 1, Len(s) - 1)) ELSE s

\* Number(value) for a value that passed the test: the number, written in its
\* shortest decimal form (sign, integer part, fraction)
NumberOf(value) ==
    LET neg == Head(value) = "-"
        s1 == IF neg THEN Tail(value) ELSE value
        d1 == DigitsLen(s1)
        int == DropLeadingZeros(SubSeq(s1, 1, d1))
        frac == DropTrailingZeros(SubSeq(s1, d1 + 2, Len(s1)))
    IN (IF neg THEN <<"-">> ELSE <<>>) \o int
       \o (IF frac = <<>> THEN <<>> ELSE <<".">> \o frac)

\* value.split(',')
RECURSIVE SplitComma(_, _)
SplitComma(value, cur) ==
    IF value = <<>> THEN <<cur>>
    ELSE IF Head(value) = "," THEN <<cur>> \o SplitComma(Tail(value), <<>>)
    ELSE SplitComma(Tail(value), Append(cur, Head(value)))

\* item.trim()
RECURSIVE TrimEnd(_)
TrimEnd(s) ==
    IF s # <<>> /\ IsSpace(s[Len(s)]) THEN TrimEnd(SubSeq(s, 1, Len(s) - 1)) ELSE s
JsTrim(s) == TrimEnd(DropSpaces(s))

\* the values of the env object: a string, a number or an array of strings
StringValue(v) == [t |-> "string", s |-> v, items |-> <<>>]
NumberValue(n) == [t |-> "number", s |-> n, items |-> <<>>]
ArrayValue(items) == [t |-> "array", s |-> <<>>, items |-> items]

processEnvValue(value) ==
    IF IsNumeric(value) THEN NumberValue(NumberOf(value))
    ELSE IF \E i \in 1..Len(value) : value[i] = ","
    THEN LET parts == SplitComma(value, <<>>)
         IN ArrayValue([i \in 1..Len(parts) |-> JsTrim(parts[i])])
    ELSE StringValue(value)

\* JSON.stringify of an array of strings
RECURSIVE JsonEscape(_)
JsonEscape(str) ==
    IF str = <<>> THEN <<>>
    ELSE (IF Head(str) \in {"\"", "\\"} THEN <<"\\", Head(str)>> ELSE <<Head(str)>>)
         \o JsonEscape(Tail(str))

RECURSIVE JsonItems(_)
JsonItems(items) ==
    IF items = <<>> THEN <<>>
    ELSE <<"\"">> \o JsonEscape(Head(items)) \o <<"\"">>
         \o (IF Len(items) > 1 THEN <<",">> ELSE <<>>) \o JsonItems(Tail(items))

JsonStringify(items) == <<"[">> \o JsonItems(items) \o <<"]">>

\* the names env inherits from Object.prototype, of those the symbols can spell
InheritedNames == {<<"constructor">>, <<"__proto__">>}

\* !env[key] is false: env has a truthy own value under the key, or inherits the name
Truthy(envx, key) ==
    IF key \in DOMAIN envx
    THEN \/ envx[key].t = "array"
         \/ (envx[key].t = "string" /\ envx[key].s # <<>>)
         \/ (envx[key].t = "number" /\ envx[key].s \notin {<<"0">>, <<"-", "0">>})
    ELSE key \in InheritedNames

NoCause == [name |-> "none", code |-> "none"]
FailedToLoad == "Failed to load encrypted environment variables"

LoaderResult(status, message, cause, decrypted, loaded, envx, initialized, procx) ==
    [status |-> status, message |-> message, cause |-> cause, decrypted |-> decrypted,
     loaded |-> loaded, env |-> envx, isInitialized |-> initialized, procEnv |-> procx]

\* the forEach of initEnv over the decrypted variables
LoadedEnv(envx, envVars) ==
    [k \in (DOMAIN envx) \cup {x \in DOMAIN envVars : ~Truthy(envx, x)} |->
        IF k \in DOMAIN envVars /\ ~Truthy(envx, k)
        THEN processEnvValue(envVars[k]) ELSE envx[k]]

LoadedProcEnv(envx, procx, envVars) ==
    LET written == {x \in DOMAIN envVars :
                       ~Truthy(envx, x) /\ processEnvValue(envVars[x]).t = "array"}
    IN [k \in (DOMAIN procx) \cup written |->
           IF k \in written THEN JsonStringify(processEnvValue(envVars[k]).items)
           ELSE procx[k]]

\* the mutant of the try block that marks the cache initialized before it decrypts
loadEnv_FlagFirst(plat, key, fsx, sourcePath, envx, procx) ==
    LET r == decryptEnvFile(plat, key, fsx, sourcePath) IN
    IF r.status = "error"
    THEN LoaderResult("error", FailedToLoad, [name |-> r.errName, code |-> r.errCode],
                      TRUE, EmptyObject, envx, TRUE, procx)
    ELSE LoaderResult("ok", "none", NoCause, TRUE, r.value,
                      LoadedEnv(envx, r.value), TRUE,
                      LoadedProcEnv(envx, procx, r.value))

\* the try block of initEnv
loadEnv(plat, key, fsx, sourcePath, envx, procx) ==
    LET r == decryptEnvFile(plat, key, fsx, sourcePath) IN
    IF r.status = "error"
    THEN LoaderResult("error", FailedToLoad, [name |-> r.errName, code |-> r.errCode],
                      TRUE, EmptyObject, envx, FALSE, procx)
    ELSE LoaderResult("ok", "none", NoCause, TRUE, r.value,
                      LoadedEnv(envx, r.value), TRUE,
                      LoadedProcEnv(envx, procx, r.value))

\* the mutant without the isInitialized guard
initEnv_NoGuard(plat, key, fsx, sourcePath, envx, initialized, procx) ==
    loadEnv(plat, key, fsx, sourcePath, envx, procx)

initEnv(plat, key, fsx, sourcePath, envx, initialized, procx) ==
    IF initialized
    THEN LoaderResult("ok", "none", NoCause, FALSE, EmptyObject, envx, TRUE, procx)
    ELSE loadEnv(plat, key, fsx, sourcePath, envx, procx)

\* resetEnv: the flag is lowered and every key of env deleted; process.env is not touched
resetEnv(envx, initialized, procx) ==
    LoaderResult("ok", "none", NoCause, FALSE, EmptyObject, EmptyObject, FALSE, procx)

\* ------------------------------------------------------------- state
VARIABLES
    platform,   \* "posix" or "win32": which path module the process runs with
    penv,       \* process.env[DEFAULT_KEY]: Undefined, "" or a passphrase
    fs,         \* the file system: resolved path -> file
    origin,     \* history: for a file encryptEnvFile wrote, what it was made from
    last,       \* the last engine call: its arguments and its outcome
    ptext,      \* parser specification: the text to parse
    pdone,      \* parser specification: the parser has run
    pvars,      \* parser specification: the mapping the parser returned
    ctext,      \* parser specification: the text the CLI writes for the mapping
    cdone,      \* parser specification: the text of the CLI has been parsed
    cvars,      \* parser specification: the mapping parsed from the text of the CLI
    env,        \* env-loader: the env object
    isInitialized, \* env-loader: the flag of the same name
    procEnv,    \* process.env: the entries initEnv wrote
    lcall,      \* the last loader call: its arguments and its outcome
    succeeded   \* history: an initEnv call has succeeded since the last resetEnv

vars == <<platform, penv, fs, origin, last, ptext, pdone, pvars, ctext, cdone, cvars,
          env, isInitialized, procEnv, lcall, succeeded>>

NoOrigin == [made |-> FALSE, plain |-> <<>>, key |-> Undefined, tampers |-> 0]

Idle == [op |-> "none", sourcePath |-> <<>>, outputPath |-> <<>>, status |-> "none",
         errName |-> "none", errCode |-> "none", value |-> EmptyObject,
         buffers |-> {}, reads |-> {}, writes |-> {}]

Call(op, sourcePath, outputPath, r) ==
    [op |-> op, sourcePath |-> sourcePath, outputPath |-> outputPath,
     status |-> r.status, errName |-> r.errName, errCode |-> r.errCode,
     value |-> r.value, buffers |-> r.buffers, reads |-> r.reads, writes |-> r.writes]

\* the plaintext files the user writes; none of them is a JSON text
T_empty == <<>>
T_kv == <<"A", "=", "1">>
T_mixed == <<"#", " ", "\n", "B", "=">>
Plaintexts == {T_empty, T_kv, T_mixed}

\* the files planted where a container is expected
T_test == <<"t", "e", "s", "t">>
JsonMissing(f) == JsonObject(RequiredFields \ {f}, <<>>,
                             IF f = "salt" THEN <<>> ELSE T_test,
                             IF f = "iv" THEN <<>> ELSE T_test,
                             IF f = "content" THEN <<>> ELSE T_test,
                             IF f = "authTag" THEN <<>> ELSE T_test)
JunkJsons == {JsonNull, JsonScalar} \cup {JsonMissing(f) : f \in RequiredFields}
             \cup {JsonObject(RequiredFields, <<>>, T_test, T_test, T_test, T_test)}

ParserIdle ==
    /\ ptext = <<>> /\ pdone = FALSE /\ pvars = EmptyObject
    /\ ctext = <<>> /\ cdone = FALSE /\ cvars = EmptyObject

NoLoaderCall == [op |-> "none", sourcePath |-> <<>>, status |-> "none", message |-> "none",
                 cause |-> NoCause, decrypted |-> FALSE, loaded |-> EmptyObject,
                 sameObject |-> FALSE]

LoaderCall(op, sourcePath, r, same) ==
    [op |-> op, sourcePath |-> sourcePath, status |-> r.status, message |-> r.message,
     cause |-> r.cause, decrypted |-> r.decrypted, loaded |-> r.loaded,
     sameObject |-> same]

\* the module state of env-loader.ts when it is loaded
LoaderIdle ==
    /\ env = EmptyObject
    /\ isInitialized = FALSE
    /\ procEnv = EmptyObject
    /\ lcall = NoLoaderCall
    /\ succeeded = FALSE

\* a step that is no call of the loader
NotLoaderCall ==
    /\ lcall' = NoLoaderCall
    /\ UNCHANGED <<env, isInitialized, procEnv, succeeded>>
EngineIdle ==
    /\ platform = "posix"
    /\ penv = Undefined
    /\ fs = [f \in Files |-> NoFile]
    /\ origin = [f \in Files |-> NoOrigin]
    /\ last = Idle
    /\ LoaderIdle

\* ------------------------------------------------------------- the engine specification
Init ==
    /\ platform \in Platforms
    /\ penv = Undefined
    /\ fs = [f \in Files |-> IF f = F_passwd THEN TextFile(T_kv, "0644") ELSE NoFile]
    /\ origin = [f \in Files |-> NoOrigin]
    /\ last = Idle
    /\ ParserIdle
    /\ LoaderIdle

\* process.env['ENV_CRYPTO_KEY'] = ... / delete process.env['ENV_CRYPTO_KEY']
SetKey(v) ==
    /\ penv # v
    /\ penv' = v
    /\ last' = Idle
    /\ UNCHANGED <<platform, fs, origin, ptext, pdone, pvars, ctext, cdone, cvars>>
    /\ NotLoaderCall

\* Bun.write('.env', text)
WriteEnv(t) ==
    /\ fs' = [fs EXCEPT ![F_env] = TextFile(t, "0644")]
    /\ origin' = [origin EXCEPT ![F_env] = NoOrigin]
    /\ last' = Idle
    /\ UNCHANGED <<platform, penv, ptext, pdone, pvars, ctext, cdone, cvars>>
    /\ NotLoaderCall

\* Bun.write('.env.encrypted', JSON.stringify(...))
PlantFile(j) ==
    /\ fs' = [fs EXCEPT ![F_enc] = JsonFile(j, "0644")]
    /\ origin' = [origin EXCEPT ![F_enc] = NoOrigin]
    /\ last' = Idle
    /\ UNCHANGED <<platform, penv, ptext, pdone, pvars, ctext, cdone, cvars>>
    /\ NotLoaderCall

FlipHex(d) == HexDigits[XorByte(HexVal(d), 1) + 1]
FlipAt(s, pos) == [s EXCEPT ![pos] = FlipHex(s[pos])]

\* one bit of content or of authTag of a container is flipped (in its first hex digit)
Tamper(f, field) ==
    /\ origin[f].made
    /\ origin[f].tampers < MaxTampers
    /\ fs[f].kind = "json"
    /\ LET v == fs[f].json
           pos == 1
       IN
       /\ pos <= Len(IF field = "content" THEN v.content ELSE v.authTag)
       /\ fs' = [fs EXCEPT ![f].json =
                    IF field = "content"
                    THEN [v EXCEPT !.content = FlipAt(v.content, pos)]
                    ELSE [v EXCEPT !.authTag = FlipAt(v.authTag, pos)]]
    /\ origin' = [origin EXCEPT ![f].tampers = @ + 1]
    /\ last' = Idle
    /\ UNCHANGED <<platform, penv, ptext, pdone, pvars, ctext, cdone, cvars>>
    /\ NotLoaderCall

\* the outcomes randomBytes can have in a call: it is reached only once the key is
\* found and the source file is read
RandomDraws(sourcePath) ==
    IF /\ penv \in Passphrases
       /\ validatePath(platform, sourcePath).ok
       /\ fs[validatePath(platform, sourcePath).resolved].kind # "none"
    THEN 1..NumRandoms
    ELSE {1}

Encrypt(sourcePath, outputPath, rnd) ==
    \E r \in {encryptEnvFile(platform, penv, fs, sourcePath, outputPath,
                            RandomSalt(rnd), RandomIV(rnd))} :
    /\ fs' = r.fs
    /\ origin' = [f \in Files |->
                    IF f \in r.writes
                    THEN [made |-> TRUE,
                          plain |-> ReadText(fs[validatePath(platform, sourcePath).resolved]),
                          key |-> penv, tampers |-> 0]
                    ELSE origin[f]]
    /\ last' = Call("encrypt", sourcePath, outputPath, r)
    /\ UNCHANGED <<platform, penv, ptext, pdone, pvars, ctext, cdone, cvars>>
    /\ NotLoaderCall

EncryptCall(sourcePath, outputPath) ==
    \E rnd \in RandomDraws(sourcePath) : Encrypt(sourcePath, outputPath, rnd)

Decrypt(sourcePath) ==
    \E r \in {decryptEnvFile(platform, penv, fs, sourcePath)} :
    /\ last' = Call("decrypt", sourcePath, <<>>, r)
    /\ UNCHANGED <<platform, penv, fs, origin, ptext, pdone, pvars, ctext, cdone, cvars>>
    /\ NotLoaderCall

Next ==
    \/ \E v \in {Undefined, ""} \cup Passphrases : SetKey(v)
    \/ \E t \in Plaintexts : WriteEnv(t)
    \/ \E j \in JunkJsons : PlantFile(j)
    \/ \E f \in Files, field \in {"content", "authTag"} : Tamper(f, field)
    \/ \E c \in EncCalls : EncryptCall(c[1], c[2])
    \/ \E s \in DecSrcPaths : Decrypt(s)

Spec == Init /\ [][Next]_vars

\* ------------------------------------------------------------- the command-line specification
\* the argument pairs of the subcommands: none (the defaults), and output paths
\* outside the working directory
NoArg == <<>>
CliArgs == {<<NoArg, NoArg>>, <<P_enc, P_up>>, <<NoArg, P_abs>>}
\* the library calls made between the commands
CliLibCalls == {<<P_env, P_enc>>, <<P_env, P_up>>}
CliLibPaths == {P_enc, P_abs}

CliEncrypt(arg1, arg2) ==
    \E rnd \in RandomDraws(ArgOr(arg1, P_env)) :
    \E r \in {cliEncrypt(platform, penv, fs, arg1, arg2, RandomSalt(rnd), RandomIV(rnd))} :
    /\ fs' = r.fs
    /\ origin' = [f \in Files |->
                    IF f \in r.writes
                    THEN [made |-> TRUE,
                          plain |-> ReadText(fs[pathResolve(platform, ArgOr(arg1, P_env))]),
                          key |-> penv, tampers |-> 0]
                    ELSE origin[f]]
    /\ last' = Call("cli encrypt", ArgOr(arg1, P_env), ArgOr(arg2, P_enc), r)
    /\ UNCHANGED <<platform, penv, ptext, pdone, pvars, ctext, cdone, cvars>>
    /\ NotLoaderCall

CliDecrypt(arg1, arg2) ==
    \E r \in {cliDecrypt(platform, penv, fs, arg1, arg2)} :
    /\ fs' = r.fs
    /\ origin' = [f \in Files |-> IF f \in r.writes THEN NoOrigin ELSE origin[f]]
    /\ last' = Call("cli decrypt", ArgOr(arg1, P_enc), ArgOr(arg2, P_env), r)
    /\ UNCHANGED <<platform, penv, ptext, pdone, pvars, ctext, cdone, cvars>>
    /\ NotLoaderCall

CliUsage ==
    \E r \in {cliUsage(fs)} :
    /\ last' = Call("cli usage", <<>>, <<>>, r)
    /\ UNCHANGED <<platform, penv, fs, origin, ptext, pdone, pvars, ctext, cdone, cvars>>
    /\ NotLoaderCall

CliNext ==
    \/ \E v \in {Undefined} \cup Passphrases : SetKey(v)
    \/ \E t \in Plaintexts : WriteEnv(t)
    \/ \E c \in CliLibCalls : EncryptCall(c[1], c[2])
    \/ \E sp \in CliLibPaths : Decrypt(sp)
    \/ \E a \in CliArgs : CliEncrypt(a[1], a[2])
    \/ \E a \in CliArgs : CliDecrypt(a[1], a[2])
    \/ CliUsage

CliSpec == Init /\ [][CliNext]_vars

\* ------------------------------------------------------------- the loader specification
\* the .env files of the loader's runs: a number, an array, a string, and a
\* variable with a name that env inherits
T_arr == <<"A", "=", "1", ",", "B">>
T_str == <<"B", "=", "A">>
T_ctor == <<"constructor", "=", "1">>
LoaderTexts == {T_kv, T_arr, T_str, T_ctor}

\* the containers initEnv is pointed at: the default, a plaintext file, a path outside
LoaderPaths == {P_enc, P_env, P_up}

InitEnv(sourcePath) ==
    \E r \in {initEnv(platform, penv, fs, sourcePath, env, isInitialized, procEnv)} :
    /\ env' = r.env
    /\ isInitialized' = r.isInitialized
    /\ procEnv' = r.procEnv
    /\ lcall' = LoaderCall("initEnv", sourcePath, r, r.status = "ok")
    /\ succeeded' = (succeeded \/ r.status = "ok")
    /\ last' = Idle
    /\ UNCHANGED <<platform, penv, fs, origin, ptext, pdone, pvars, ctext, cdone, cvars>>

ResetEnv ==
    \E r \in {resetEnv(env, isInitialized, procEnv)} :
    /\ env' = r.env
    /\ isInitialized' = r.isInitialized
    /\ procEnv' = r.procEnv
    /\ lcall' = LoaderCall("resetEnv", <<>>, r, FALSE)
    /\ succeeded' = FALSE
    /\ last' = Idle
    /\ UNCHANGED <<platform, penv, fs, origin, ptext, pdone, pvars, ctext, cdone, cvars>>

LoaderNext ==
    \/ \E v \in {Undefined} \cup Passphrases : SetKey(v)
    \/ \E t \in LoaderTexts : WriteEnv(t)
    \/ EncryptCall(P_env, P_enc)
    \/ \E s \in LoaderPaths : InitEnv(s)
    \/ ResetEnv

LoaderSpec == Init /\ [][LoaderNext]_vars

\* ------------------------------------------------------------- the parser specification
ParserChars == {"A", "__proto__", "=", " ", "#", "\"", "'", "\n"}

\* the one-line texts A=<value> and __proto__=<value>, the value written with
\* quotes, a letter, a digit, a blank, a comma and a semicolon
ValueChars == {"\"", "'", "A", "1", " ", ",", ";"}
QuoteTexts == {<<k, "=">> \o v : k \in {"A", "__proto__"},
                                  v \in SeqsUpTo(ValueChars, MaxValueLen)}

ParserInit ==
    /\ EngineIdle
    /\ ptext \in SeqsUpTo(ParserChars, MaxTextLen) \cup QuoteTexts
    /\ pdone = FALSE
    /\ pvars = EmptyObject
    /\ ctext = <<>> /\ cdone = FALSE /\ cvars = EmptyObject

\* the parser of decryptEnvFile runs on the text
Parse ==
    /\ ~pdone
    /\ pvars' = ParseEnv(ptext)
    /\ pdone' = TRUE
    /\ UNCHANGED <<platform, penv, fs, origin, last, ptext, ctext, cdone, cvars>>
    /\ NotLoaderCall

\* the decrypt subcommand writes the mapping as text, and the text is parsed
\* (as the decryptEnvFile of the written file, once encrypted, parses it)
Reserialize ==
    /\ pdone
    /\ ~cdone
    /\ ctext' = EnvContent(pvars)
    /\ cvars' = ParseEnv(EnvContent(pvars))
    /\ cdone' = TRUE
    /\ UNCHANGED <<platform, penv, fs, origin, last, ptext, pdone, pvars>>
    /\ NotLoaderCall

ParserNext == Parse \/ Reserialize

ParserSpec == ParserInit /\ [][ParserNext]_vars

\* ------------------------------------------------------------- the claims
KeyPresent == penv \in Passphrases
IsCall == last.op \in {"encrypt", "decrypt"}
Resolved(p) == pathResolve(platform, p)
Outside(p) == ~InsideCwd(Resolved(p))
SourceFile == fs[Resolved(last.sourcePath)]

\* the decryption reached the file: key present, path accepted, file there
DecryptReadsFile ==
    /\ last.op = "decrypt"
    /\ KeyPresent
    /\ validatePath(platform, last.sourcePath).ok
    /\ SourceFile.kind # "none"

\* the tag in the container is the tag of its content under the key derived
\* from the passphrase and the container's salt
TagVerifies(data, key) ==
    FromHex(data.authTag) =
        GcmTag(Scrypt(key, FromHex(data.salt)), FromHex(data.iv), FromHex(data.content))

\* C1 (as claimed): decrypting, with the same passphrase, a container that
\* encryptEnvFile produced from plaintext P (the empty text included) succeeds
\* and returns the mapping the key-value parser yields for P.
C1_RoundTrip ==
    (/\ DecryptReadsFile
     /\ origin[Resolved(last.sourcePath)].made
     /\ origin[Resolved(last.sourcePath)].tampers = 0
     /\ origin[Resolved(last.sourcePath)].key = penv)
    => (/\ last.status = "ok"
        /\ last.value = ParseEnv(origin[Resolved(last.sourcePath)].plain))

\* the round trip of every non-empty plaintext
RoundTripNonEmpty ==
    (/\ DecryptReadsFile
     /\ origin[Resolved(last.sourcePath)].made
     /\ origin[Resolved(last.sourcePath)].tampers = 0
     /\ origin[Resolved(last.sourcePath)].key = penv
     /\ origin[Resolved(last.sourcePath)].plain # <<>>)
    => (/\ last.status = "ok"
        /\ last.value = ParseEnv(origin[Resolved(last.sourcePath)].plain))

\* the container was produced by encryptEnvFile, and its tag does not verify
\* under the passphrase now supplied (it was tampered with, or the passphrase differs)
TagMismatch ==
    /\ DecryptReadsFile
    /\ origin[Resolved(last.sourcePath)].made
    /\ origin[Resolved(last.sourcePath)].plain # <<>>
    /\ (origin[Resolved(last.sourcePath)].tampers > 0
        \/ origin[Resolved(last.sourcePath)].key # penv)
    /\ ~TagVerifies(SourceFile.json, penv)

\* C2 (as claimed): decryptEnvFile on a container whose tag does not verify
\* fails with the error kind DecryptionFailed and returns no mapping.
C2_Integrity ==
    TagMismatch => (/\ last.status = "error"
                    /\ last.errName = "EnvCryptoError"
                    /\ last.errCode = "DECRYPTION_FAILED")

\* a container whose tag does not verify is never decrypted to a mapping
IntegrityNoMapping == TagMismatch => last.status = "error"

\* C3 (as claimed): with the passphrase present, encryptEnvFile fails with
\* InvalidPath whenever sourcePath or outputPath resolves outside the working
\* directory, decryptEnvFile whenever sourcePath does; '.env' and
\* './subdir/.env' are accepted.
C3_PathSafety ==
    /\ (/\ last.op = "encrypt"
        /\ KeyPresent
        /\ (Outside(last.sourcePath) \/ Outside(last.outputPath)))
       => (last.errName = "EnvCryptoError" /\ last.errCode = "INVALID_PATH")
    /\ (last.op = "decrypt" /\ KeyPresent /\ Outside(last.sourcePath))
       => (last.errName = "EnvCryptoError" /\ last.errCode = "INVALID_PATH")
    /\ (last.op = "decrypt" /\ last.sourcePath \in {P_env, P_sub})
       => last.errCode # "INVALID_PATH"

\* what holds of the paths: a sourcePath outside the working directory is always
\* refused, and no call reads or writes a file outside it
PathSafetyOfSource ==
    /\ (IsCall /\ KeyPresent /\ Outside(last.sourcePath))
       => (last.errName = "EnvCryptoError" /\ last.errCode = "INVALID_PATH")
    /\ \A f \in last.reads \cup last.writes : InsideCwd(f)

C5_MissingField ==
    (/\ DecryptReadsFile
     /\ SourceFile.kind = "json"
     /\ (SourceFile.json.j = "null"
         \/ \E f \in RequiredFields : f \notin SourceFile.json.has))
    => (/\ last.status = "error"
        /\ last.errName = "EnvCryptoError"
        /\ last.errCode = "INVALID_FORMAT")

\* the same for every JSON value other than null
MissingFieldNonNull ==
    (/\ DecryptReadsFile
     /\ SourceFile.kind = "json"
     /\ SourceFile.json.j # "null"
     /\ \E f \in RequiredFields : f \notin SourceFile.json.has)
    => (/\ last.status = "error"
        /\ last.errName = "EnvCryptoError"
        /\ last.errCode = "INVALID_FORMAT")

\* C6 (as claimed): when the container file is no JSON text at all,
\* decryptEnvFile fails with the typed error kind MalformedContainer.
C6_Malformed ==
    (DecryptReadsFile /\ SourceFile.kind = "text")
    => (/\ last.status = "error"
        /\ last.errName = "EnvCryptoError"
        /\ last.errCode = "MALFORMED_CONTAINER")

Zeroed(bytes) == \A i \in 1..Len(bytes) : bytes[i] = 0

\* C7 (as claimed): when encryptEnvFile or decryptEnvFile exits, every
\* derived-key buffer and every salt buffer the call created holds only zeros.
C7_Zeroing == IsCall => \A b \in last.buffers : Zeroed(b.bytes)

\* the derived-key buffers of both calls, and the salt buffer of encryptEnvFile
ZeroingOfKeys ==
    IsCall => \A b \in last.buffers :
                 (b.name = "keyBuffer" \/ last.op = "encrypt") => Zeroed(b.bytes)

\* C8 (as claimed): after a successful encryptEnvFile the file at outputPath
\* holds the new container and has mode 0600, whether the call created the
\* file or overwrote one that had another mode.
C8_Permissions ==
    (last.op = "encrypt" /\ last.status = "ok")
    => (/\ fs[Resolved(last.outputPath)].kind = "json"
        /\ origin[Resolved(last.outputPath)].made
        /\ fs[Resolved(last.outputPath)].mode = Mode600)

CompleteContainer(file) ==
    /\ file.kind = "json"
    /\ file.json.j = "object"
    /\ file.json.has = RequiredFields \cup {"version"}

\* C9: an encryptEnvFile call that fails (KeyNotFound, InvalidPath, unreadable
\* source) leaves every file as it was, and a call that succeeds changes the
\* output file alone, into a complete container: no call leaves a partial one.
C9_AllOrNothing ==
    [][(last'.op = "encrypt")
       => (/\ last'.status = "error" => fs' = fs
           /\ \A f \in Files :
                 \/ fs'[f] = fs[f]
                 \/ (f = Resolved(last'.outputPath) /\ CompleteContainer(fs'[f])))]_vars

\* C9 witness: an encryption aimed at an existing container has failed because
\* its source file is missing
C9_Witness ==
    /\ last.op = "encrypt"
    /\ last.errCode = "ENOENT"
    /\ last.outputPath = P_enc
    /\ CompleteContainer(fs[F_enc])

\* ---- C10: the lines of a text, classified without the parser's regular expression
Lines(txt) == SplitLines(txt, <<>>)
LineSet(txt) == {Lines(txt)[i] : i \in 1..Len(Lines(txt))}

RECURSIVE TrimLeft(_)
TrimLeft(s) == IF s # <<>> /\ Head(s) = " " THEN TrimLeft(Tail(s)) ELSE s
RECURSIVE TrimRight(_)
TrimRight(s) ==
    IF s # <<>> /\ s[Len(s)] = " " THEN TrimRight(SubSeq(s, 1, Len(s) - 1)) ELSE s
Trim(s) == TrimLeft(TrimRight(s))

HasEq(line) == \E i \in 1..Len(line) : line[i] = "="
FirstEq(line) == CHOOSE i \in 1..Len(line) :
                    line[i] = "=" /\ \A j \in 1..(i - 1) : line[j] # "="
\* what stands before the first "=", without the spaces around it
KeyPart(line) == Trim(SubSeq(line, 1, FirstEq(line) - 1))

\* a line of the form key=value, key in [A-Za-z0-9_.-]+
IsKeyValueLine(line) ==
    /\ HasEq(line)
    /\ KeyPart(line) # <<>>
    /\ \A i \in 1..Len(KeyPart(line)) : IsKeyChar(KeyPart(line)[i])

\* C10 (as claimed): blank lines, comment lines, lines without "=" and lines
\* with an empty key contribute no entry; every line of the form key=value
\* contributes exactly one entry; the mapping has no other keys.
C10_LineFilter ==
    pdone => DOMAIN pvars = {KeyPart(l) : l \in {x \in LineSet(ptext) : IsKeyValueLine(x)}}

\* the same for every key but "__proto__"
LineFilterOwnKeys ==
    pdone => DOMAIN pvars =
                {KeyPart(l) : l \in {x \in LineSet(ptext) :
                                        IsKeyValueLine(x) /\ KeyPart(x) # <<"__proto__">>}}

\* ---- C11: the value of a key=value line, taken without the regular expression
\* what stands after the first "=", without the blanks that follow the "="
ValuePart(line) == TrimLeft(SubSeq(line, FirstEq(line) + 1, Len(line)))

QuoteChars == {"\"", "'"}

\* the value without its pair of quotes, when it has one
Unquoted(v) ==
    IF Len(v) >= 2 /\ v[1] \in QuoteChars /\ v[Len(v)] = v[1]
    THEN [i \in 1..(Len(v) - 2) |-> v[i + 1]]
    ELSE v

\* line i of the text is a key=value line and no later line has its key
LastOfKey(txt, i) ==
    /\ IsKeyValueLine(Lines(txt)[i])
    /\ \A j \in (i + 1)..Len(Lines(txt)) :
          IsKeyValueLine(Lines(txt)[j]) => KeyPart(Lines(txt)[j]) # KeyPart(Lines(txt)[i])

\* C11 (as claimed): for every key=value line (the last one of its key), the
\* value stored under the key is the matched value without its two quote
\* characters when it begins and ends with the same quote character, as two
\* distinct characters, and the matched value unchanged in every other case.
C11_QuoteStripping ==
    pdone => \A i \in 1..Len(Lines(ptext)) :
                LastOfKey(ptext, i)
                => (/\ KeyPart(Lines(ptext)[i]) \in DOMAIN pvars
                    /\ pvars[KeyPart(Lines(ptext)[i])] = Unquoted(ValuePart(Lines(ptext)[i])))

\* the same for every key but "__proto__"
QuoteStrippingOwnKeys ==
    pdone => \A i \in 1..Len(Lines(ptext)) :
                (LastOfKey(ptext, i) /\ KeyPart(Lines(ptext)[i]) # <<"__proto__">>)
                => (/\ KeyPart(Lines(ptext)[i]) \in DOMAIN pvars
                    /\ pvars[KeyPart(Lines(ptext)[i])] = Unquoted(ValuePart(Lines(ptext)[i])))

\* a quoted value with an interior has been parsed
QuotedValueParsed ==
    /\ pdone
    /\ ptext = <<"A", "=", "\"", "'", " ", "\"">>
    /\ pvars = (<<"A">> :> <<"'", " ">>)

\* ---- the loader
\* C12: once an initEnv call has succeeded, every later initEnv call made before
\* a resetEnv returns the env object without decrypting and without changing
\* env, whatever its argument, the files and the key variable now are; an
\* initEnv call made after resetEnv decrypts again.
C12_InitOnce ==
    [][/\ (lcall'.op = "initEnv" /\ succeeded)
          => (/\ lcall'.status = "ok"
              /\ lcall'.sameObject
              /\ ~lcall'.decrypted
              /\ env' = env
              /\ procEnv' = procEnv)
       /\ (lcall'.op = "initEnv" /\ lcall.op = "resetEnv") => lcall'.decrypted]_vars

\* C12 witness: after a successful initEnv the key variable was unset, and a
\* later initEnv has returned env without decrypting
C12_Witness ==
    /\ lcall.op = "initEnv"
    /\ succeeded
    /\ penv = Undefined
    /\ lcall.status = "ok"
    /\ ~lcall.decrypted
    /\ env # EmptyObject

\* C13 (as claimed): after a successful initEnv that decrypted a container,
\* every variable of the container is in the env object and in process.env,
\* the array-valued ones in process.env as JSON strings.
C13_Loaded ==
    (lcall.op = "initEnv" /\ lcall.decrypted /\ lcall.status = "ok")
    => \A k \in DOMAIN lcall.loaded :
          /\ k \in DOMAIN env
          /\ k \in DOMAIN procEnv
          /\ env[k].t = "array" => procEnv[k] = JsonStringify(env[k].items)

\* what holds: every variable whose name env does not inherit is in the env
\* object, processed, and the array-valued ones are in process.env as JSON strings
LoadedIntoEnv ==
    (lcall.op = "initEnv" /\ lcall.decrypted /\ lcall.status = "ok")
    => \A k \in (DOMAIN lcall.loaded) \ InheritedNames :
          /\ k \in DOMAIN env
          /\ env[k] = processEnvValue(lcall.loaded[k])
          /\ env[k].t = "array"
             => (k \in DOMAIN procEnv /\ procEnv[k] = JsonStringify(env[k].items))

\* C14: when the decrypt inside initEnv fails, initEnv throws the error with the
\* message 'Failed to load encrypted environment variables' and the engine
\* error as its cause, env and process.env stay as they were and the cache
\* stays uninitialized; an initEnv call made while no call has succeeded
\* decrypts (again).
C14_InitFailure ==
    [][/\ (/\ lcall'.op = "initEnv"
           /\ ~succeeded
           /\ decryptEnvFile(platform, penv, fs, lcall'.sourcePath).status = "error")
          => (/\ lcall'.status = "error"
              /\ lcall'.message = FailedToLoad
              /\ lcall'.cause.name =
                    decryptEnvFile(platform, penv, fs, lcall'.sourcePath).errName
              /\ lcall'.cause.code =
                    decryptEnvFile(platform, penv, fs, lcall'.sourcePath).errCode
              /\ env' = env
              /\ procEnv' = procEnv
              /\ ~isInitialized')
       /\ (lcall'.op = "initEnv" /\ ~succeeded) => lcall'.decrypted]_vars

\* C14 witness: an initEnv call has failed on a container whose tag does not
\* verify under the key, and has left env empty and the cache uninitialized
C14_Witness ==
    /\ lcall.op = "initEnv"
    /\ lcall.status = "error"
    /\ lcall.decrypted
    /\ lcall.cause = [name |-> "Error", code |-> "none"]
    /\ ~isInitialized
    /\ env = EmptyObject

\* C18 (as claimed): after resetEnv env has no keys and process.env holds no
\* entry that initEnv wrote; after the initEnv that follows, env and the
\* entries initEnv wrote to process.env are those of the container just loaded.
C18_ResetComplete ==
    /\ lcall.op = "resetEnv"
       => (DOMAIN env = {} /\ DOMAIN procEnv = {} /\ ~isInitialized)
    /\ (lcall.op = "initEnv" /\ lcall.decrypted /\ lcall.status = "ok")
       => (/\ DOMAIN env \subseteq DOMAIN lcall.loaded
           /\ DOMAIN procEnv \subseteq DOMAIN lcall.loaded)

\* what holds: resetEnv empties env and lowers the flag, and env after the next
\* initEnv has the variables of the container just loaded only
ResetClearsEnv ==
    /\ lcall.op = "resetEnv" => (DOMAIN env = {} /\ ~isInitialized)
    /\ (lcall.op = "initEnv" /\ lcall.decrypted /\ lcall.status = "ok")
       => DOMAIN env \subseteq DOMAIN lcall.loaded

\* ---- the order of the steps, and the command line
\* C15 (as claimed): an encryptEnvFile call made with the key present and an
\* outputPath outside the working directory fails with InvalidPath without
\* having read the source file or derived a key, whether the source file is
\* there or not.
C15_StepOrder ==
    (last.op = "encrypt" /\ KeyPresent /\ Outside(last.outputPath))
    => (/\ last.status = "error"
        /\ last.errName = "EnvCryptoError"
        /\ last.errCode = "INVALID_PATH"
        /\ last.reads = {}
        /\ last.buffers = {})

\* what holds: such a call fails and writes nothing
OutsideOutputFails ==
    (last.op = "encrypt" /\ KeyPresent /\ Outside(last.outputPath))
    => (last.status = "error" /\ last.writes = {})

\* C16 (as claimed): no step of the library operations or of the subcommands
\* encrypt and decrypt creates or overwrites a file outside the working
\* directory tree.
C16_WriteConfinement ==
    [][last'.op \in {"encrypt", "decrypt", "cli encrypt", "cli decrypt"}
       => \A f \in Files : InsideCwd(f) \/ fs'[f] = fs[f]]_vars

\* what holds: the same of the library operations and of the subcommand encrypt
LibraryWritesConfined ==
    [][last'.op \in {"encrypt", "decrypt", "cli encrypt"}
       => \A f \in Files : InsideCwd(f) \/ fs'[f] = fs[f]]_vars

\* ---- C17: the text of the decrypt subcommand, parsed again
\* C17 (as claimed): for every mapping the parser returns, parsing the
\* key=value text the decrypt subcommand writes for it yields the mapping again.
C17_Reserialize == cdone => cvars = pvars

\* the value begins and ends with the same quote character
QuoteWrapped(v) == Len(v) >= 2 /\ v[1] \in QuoteChars /\ v[Len(v)] = v[1]

\* what holds: the mapping is parsed back unless one of its values is wrapped
\* in quotes and written bare
ReserializeUnwrapped ==
    (cdone /\ \A k \in DOMAIN pvars : ~QuoteWrapped(pvars[k]) \/ NeedsQuotes(pvars[k]))
    => cvars = pvars

\* a value with a blank has been written in quotes and parsed back
QuotedAndBack ==
    /\ cdone
    /\ pvars = (<<"A">> :> <<"A", " ">>)
    /\ ctext = <<"A", "=", "\"", "A", " ", "\"", "\n">>
    /\ cvars = pvars

====
